---- MODULE Spec2Model ----
(***************************************************************************)
(* Pomodoro timer store (src/src/store/pomodoroStore.ts) and the time-up   *)
(* handling of the PomodoroTimer component, the task store                 *)
(* (src/src/store/taskStore.ts), the home page that ties a task to the     *)
(* timer, the foreground handler of the useTimer hook and the statistics   *)
(* store (src/unnamed/part_007), as state machines.                        *)
(*                                                                         *)
(* Every store operation is a pure operator from a store state             *)
(*   [timer, settings, sessions, currentTaskId]                            *)
(* to the store state after the call; the actions apply the operators.     *)
(* Time is counted in seconds; a configured minute is SecPerMin seconds.   *)
(***************************************************************************)
EXTENDS Integers, Sequences, FiniteSets, TLC

VARIABLES
  timer, settings, sessions, currentTaskId,   \* usePomodoroStore
  tasks, error,                               \* useTaskStore
  currentTask, showTimer,                     \* HomePage's useState hooks
  timeUp,                                     \* PomodoroTimer: handleTimeUp in flight
  dailyStats                                  \* useStatsStore

pomodoroVars == <<timer, settings, sessions, currentTaskId>>
taskVars == <<tasks, error>>
pageVars == <<currentTask, showTimer, timeUp>>
statsVars == <<dailyStats>>
vars == <<timer, settings, sessions, currentTaskId, tasks, error,
          currentTask, showTimer, timeUp, dailyStats>>

----------------------------------------------------------------------------
(* Bounds of the model.                                                    *)

\* seconds per configured minute: the model's stand-in for the factor 60
SecPerMin == 1
\* default minutes of a focus phase, a short break and a long break: the
\* model's stand-ins for 25, 5 and 15 (three different, shorter phases)
DefaultFocusMinutes == 2
DefaultShortBreakMinutes == 1
DefaultLongBreakMinutes == 3
\* longest ledger for which startTimer is still explored
MaxSessions == 2
\* largest completedPomodoros / currentCycle from which a session is started
MaxCount == 2
\* largest plannedTomatoes a task is created with
MaxPlanned == 2
\* largest completedTomatoes from which incrementTomato is still explored
MaxTomatoes == 3
\* most seconds between a session's startTime and the return to the foreground
MaxElapsed == 3
\* longest task list and longest session list the aggregator is given
MaxStatTasks == 3
MaxStatSessions == 2

(* Constants of the program.                                               *)
\* the divisor of "/ 60" (seconds to minutes) in the statistics store
MinuteSeconds == 60
\* the factor of "* 100" of a completion rate
Percent == 100
\* days of a week of calculateWeeklyStats
WeekDays == 7
\* days of the 'week' and of the 'month' trend chart
TrendWeekDays == 7
TrendMonthDays == 30

(* Inputs.                                                                 *)
TaskIds == {"t1", "t2"}
NoTaskArg == ""        \* startTimer() without an argument (undefined)
Null == "null"         \* currentTaskId: null
Undefined == "undefined"   \* an absent optional field
Now == "now"               \* new Date().toISOString()
UnknownId == "t0"          \* an id no task carries
NoTimeUp == "none"         \* no handleTimeUp call is in flight
NaN == "NaN"               \* the number NaN: undefined in arithmetic
\* values updateSettings is called with (minutes / pomodoro counts)
FocusChoices == {3}
IntervalChoices == {1, 2}

----------------------------------------------------------------------------
(* State of the store.                                                     *)

\* timer.currentSession: undefined
NoSession ==
  [id |-> 0, taskId |-> "", duration |-> 0, plannedDuration |-> 0,
   type |-> "none", status |-> "none", interruptions |-> 0]

HasSession(t) == t.currentSession.id # 0

defaultSettings ==
  [focusDuration |-> DefaultFocusMinutes,
   shortBreakDuration |-> DefaultShortBreakMinutes,
   longBreakDuration |-> DefaultLongBreakMinutes,
   longBreakInterval |-> 4, autoStartBreaks |-> FALSE,
   autoStartPomodoros |-> FALSE, soundEnabled |-> TRUE,
   notificationEnabled |-> TRUE]

initialTimer ==
  [currentSession |-> NoSession, remainingTime |-> DefaultFocusMinutes * SecPerMin,
   isRunning |-> FALSE, isPaused |-> FALSE, currentType |-> "focus",
   completedPomodoros |-> 0, currentCycle |-> 1]

St == [timer |-> timer, settings |-> settings, sessions |-> sessions,
       currentTaskId |-> currentTaskId]

\* configured minutes of a phase type
ConfiguredMinutes(set, type) ==
  IF type = "focus" THEN set.focusDuration
  ELSE IF type = "short-break" THEN set.shortBreakDuration
  ELSE set.longBreakDuration

\* generateId(): an id no live session carries
UsedIds(s) == {s.sessions[i].id : i \in 1..Len(s.sessions)} \cup {s.timer.currentSession.id}
\* generateId that hands out the same id every time
generateIdConstant(s) == 1

generateId(s) == CHOOSE i \in 1..(Len(s.sessions) + 2) :
                   /\ i \notin UsedIds(s)
                   /\ \A j \in 1..(i - 1) : j \in UsedIds(s)

----------------------------------------------------------------------------
(* Store operations.                                                       *)

\* the session record startTimer builds
NewSession(s, taskId) ==
  [id |-> generateId(s),
   taskId |-> IF taskId # NoTaskArg THEN taskId
              ELSE IF s.currentTaskId # Null THEN s.currentTaskId
              ELSE "",
   duration |-> 0,
   plannedDuration |-> ConfiguredMinutes(s.settings, s.timer.currentType) * SecPerMin,
   type |-> s.timer.currentType,
   status |-> "running",
   interruptions |-> 0]

\* the set(...) of startTimer
Started(s, taskId) ==
  [s EXCEPT !.timer = [s.timer EXCEPT !.isRunning = TRUE,
                                      !.isPaused = FALSE,
                                      !.currentSession = NewSession(s, taskId)],
            !.sessions = Append(s.sessions, NewSession(s, taskId)),
            !.currentTaskId = IF taskId # NoTaskArg THEN taskId
                              ELSE s.currentTaskId]

\* startTimer without its "already running" return
startTimerUnguarded(s, taskId) == Started(s, taskId)

startTimer(s, taskId) ==
  IF s.timer.isRunning THEN s ELSE Started(s, taskId)

pauseTimer(s) ==
  [s EXCEPT !.timer = [s.timer EXCEPT !.isRunning = FALSE, !.isPaused = TRUE]]

resumeTimer(s) ==
  IF s.timer.isPaused
  THEN [s EXCEPT !.timer = [s.timer EXCEPT !.isRunning = TRUE, !.isPaused = FALSE]]
  ELSE s

Cancelled(t, session) ==
  [session EXCEPT !.status = "cancelled",
                  !.duration = t.currentSession.plannedDuration - t.remainingTime]

\* stopTimer that spreads initialTimer and keeps only currentType
stopTimerResetsCounters(s) ==
  IF HasSession(s.timer)
  THEN [s EXCEPT !.timer = [initialTimer EXCEPT
                              !.currentType = s.timer.currentType],
                 !.sessions = [i \in 1..Len(s.sessions) |->
                                 IF s.sessions[i].id = s.timer.currentSession.id
                                 THEN Cancelled(s.timer, s.sessions[i])
                                 ELSE s.sessions[i]]]
  ELSE s

stopTimer(s) ==
  IF HasSession(s.timer)
  THEN [s EXCEPT !.timer = [initialTimer EXCEPT
                              !.currentType = s.timer.currentType,
                              !.completedPomodoros = s.timer.completedPomodoros,
                              !.currentCycle = s.timer.currentCycle],
                 !.sessions = [i \in 1..Len(s.sessions) |->
                                 IF s.sessions[i].id = s.timer.currentSession.id
                                 THEN Cancelled(s.timer, s.sessions[i])
                                 ELSE s.sessions[i]]]
  ELSE s

resetTimer(s) ==
  [s EXCEPT !.timer = [initialTimer EXCEPT
                         !.remainingTime = s.settings.focusDuration * SecPerMin]]

\* the completed record without its duration assignment
CompletedKeepsDuration(session) ==
  [session EXCEPT !.status = "completed"]

Completed(session) ==
  [session EXCEPT !.status = "completed", !.duration = session.plannedDuration]

\* the long-break decision taken on the count before the increment
IsLongBreakStale(completedPomodoros, set) ==
  (completedPomodoros - 1) % set.longBreakInterval = 0

\* the long-break decision of completeSession
IsLongBreak(completedPomodoros, set) ==
  completedPomodoros % set.longBreakInterval = 0

completeSession(s) ==
  IF ~HasSession(s.timer) THEN s
  ELSE
    LET t == s.timer
        set == s.settings
        completedPomodoros ==
          IF t.currentType = "focus" THEN t.completedPomodoros + 1
          ELSE t.completedPomodoros
        currentCycle ==
          IF t.currentType = "focus" THEN t.currentCycle ELSE t.currentCycle + 1
        nextType ==
          IF t.currentType = "focus"
          THEN IF IsLongBreak(completedPomodoros, set) THEN "long-break"
               ELSE "short-break"
          ELSE "focus"
        nextDuration == ConfiguredMinutes(set, nextType) * SecPerMin
    IN [s EXCEPT !.timer = [currentSession |-> NoSession,
                            remainingTime |-> nextDuration,
                            isRunning |-> FALSE,
                            isPaused |-> FALSE,
                            currentType |-> nextType,
                            completedPomodoros |-> completedPomodoros,
                            currentCycle |-> currentCycle],
                 !.sessions = [i \in 1..Len(s.sessions) |->
                                 IF s.sessions[i].id = t.currentSession.id
                                 THEN Completed(s.sessions[i])
                                 ELSE s.sessions[i]]]

\* tick that returns only when the timer is neither running nor paused
tickWhilePaused(s) ==
  IF ~s.timer.isRunning /\ ~s.timer.isPaused THEN s
  ELSE IF s.timer.remainingTime > 0
  THEN [s EXCEPT !.timer = [s.timer EXCEPT !.remainingTime = s.timer.remainingTime - 1]]
  ELSE completeSession(s)

\* tick without the remainingTime > 0 test
tickUnclamped(s) ==
  IF ~s.timer.isRunning \/ s.timer.isPaused THEN s
  ELSE [s EXCEPT !.timer = [s.timer EXCEPT !.remainingTime = s.timer.remainingTime - 1]]

tick(s) ==
  IF ~s.timer.isRunning \/ s.timer.isPaused THEN s
  ELSE IF s.timer.remainingTime > 0
  THEN [s EXCEPT !.timer = [s.timer EXCEPT !.remainingTime = s.timer.remainingTime - 1]]
  ELSE completeSession(s)

Interrupted(session) ==
  [session EXCEPT !.interruptions = session.interruptions + 1]

addInterruption(s) ==
  IF HasSession(s.timer)
  THEN [s EXCEPT !.sessions = [i \in 1..Len(s.sessions) |->
                                 IF s.sessions[i].id = s.timer.currentSession.id
                                 THEN Interrupted(s.sessions[i])
                                 ELSE s.sessions[i]]]
  ELSE s

\* updateSettings that also re-derives remainingTime from the new settings
updateSettingsRederives(s, newSettings) ==
  LET set == [f \in DOMAIN s.settings |->
                IF f \in DOMAIN newSettings THEN newSettings[f]
                ELSE s.settings[f]]
  IN [s EXCEPT !.settings = set,
               !.timer = [s.timer EXCEPT !.remainingTime =
                            ConfiguredMinutes(set, s.timer.currentType) * SecPerMin]]

\* { ...state.settings, ...newSettings }
updateSettings(s, newSettings) ==
  [s EXCEPT !.settings = [f \in DOMAIN s.settings |->
                            IF f \in DOMAIN newSettings THEN newSettings[f]
                            ELSE s.settings[f]]]

resetSettings(s) == [s EXCEPT !.settings = defaultSettings]

clearAllSessions(s) == [s EXCEPT !.sessions = <<>>]

setCurrentTask(s, taskId) == [s EXCEPT !.currentTaskId = taskId]

\* PomodoroTimer: the effect on [timer.remainingTime, timer.isRunning]
\* invokes handleTimeUp when this holds
TimeIsUp(t) == t.remainingTime = 0 /\ t.isRunning

\* handleTimeUp: toast and modal aside, it calls completeSession()
handleTimeUp(s) == completeSession(s)

----------------------------------------------------------------------------
(* Task store (src/src/store/taskStore.ts). A task is                      *)
(*   [id, title, status, plannedTomatoes, completedTomatoes, completedAt]; *)
(* createdAt and updatedAt are timestamps no operation reads.              *)

Ts == [tasks |-> tasks, error |-> error]

\* the TaskFormData addTask is called with
TaskForms == {[title |-> "a", plannedTomatoes |-> p] : p \in 1..MaxPlanned}

\* the Partial<Task> objects updateTask is called with
TaskUpdates == {[title |-> "b"], [status |-> "completed"]}

TaskIdsOf(list) == {list[i].id : i \in 1..Len(list)}

\* generateId() for a task: an id no task of the list carries
generateTaskId(ts) == CHOOSE id \in TaskIds : id \notin TaskIdsOf(ts.tasks)

addTask(ts, taskData) ==
  [tasks |-> Append(ts.tasks,
                    [id |-> generateTaskId(ts),
                     title |-> taskData.title,
                     plannedTomatoes |-> taskData.plannedTomatoes,
                     status |-> "todo",
                     completedTomatoes |-> 0,
                     completedAt |-> Undefined]),
   error |-> Null]

\* { ...task, ...updates, updatedAt }
updateTask(ts, id, updates) ==
  [tasks |-> [i \in 1..Len(ts.tasks) |->
                IF ts.tasks[i].id = id
                THEN [f \in DOMAIN ts.tasks[i] |->
                        IF f \in DOMAIN updates THEN updates[f]
                        ELSE ts.tasks[i][f]]
                ELSE ts.tasks[i]],
   error |-> Null]

deleteTask(ts, id) ==
  [tasks |-> SelectSeq(ts.tasks, LAMBDA task : task.id # id),
   error |-> Null]

\* the switch of toggleTaskStatus
NextStatus(status) ==
  IF status = "todo" THEN "in-progress"
  ELSE IF status = "in-progress" THEN "completed"
  ELSE "todo"

\* toggleTaskStatus that spreads the task and never clears completedAt
toggleTaskStatusKeepsCompletedAt(ts, id) ==
  [tasks |-> [i \in 1..Len(ts.tasks) |->
                IF ts.tasks[i].id = id
                THEN [ts.tasks[i] EXCEPT
                        !.status = NextStatus(ts.tasks[i].status),
                        !.completedAt =
                          IF NextStatus(ts.tasks[i].status) = "completed"
                          THEN Now ELSE ts.tasks[i].completedAt]
                ELSE ts.tasks[i]],
   error |-> Null]

toggleTaskStatus(ts, id) ==
  [tasks |-> [i \in 1..Len(ts.tasks) |->
                IF ts.tasks[i].id = id
                THEN [ts.tasks[i] EXCEPT
                        !.status = NextStatus(ts.tasks[i].status),
                        !.completedAt =
                          IF NextStatus(ts.tasks[i].status) = "completed"
                          THEN Now ELSE Undefined]
                ELSE ts.tasks[i]],
   error |-> Null]

\* incrementTomato that stops at plannedTomatoes
incrementTomatoClamped(ts, id) ==
  [tasks |-> [i \in 1..Len(ts.tasks) |->
                IF ts.tasks[i].id = id
                     /\ ts.tasks[i].completedTomatoes < ts.tasks[i].plannedTomatoes
                THEN [ts.tasks[i] EXCEPT
                        !.completedTomatoes = ts.tasks[i].completedTomatoes + 1]
                ELSE ts.tasks[i]],
   error |-> Null]

incrementTomato(ts, id) ==
  [tasks |-> [i \in 1..Len(ts.tasks) |->
                IF ts.tasks[i].id = id
                THEN [ts.tasks[i] EXCEPT
                        !.completedTomatoes = ts.tasks[i].completedTomatoes + 1]
                ELSE ts.tasks[i]],
   error |-> Null]

decrementTomato(ts, id) ==
  [tasks |-> [i \in 1..Len(ts.tasks) |->
                IF ts.tasks[i].id = id /\ ts.tasks[i].completedTomatoes > 0
                THEN [ts.tasks[i] EXCEPT
                        !.completedTomatoes = ts.tasks[i].completedTomatoes - 1]
                ELSE ts.tasks[i]],
   error |-> Null]

clearAllTasks(ts) == [tasks |-> <<>>, error |-> Null]

(* TaskService (src/src/services/taskService.ts): the same operations on   *)
(* the task list kept in storage; thrown is whether the call rejects.      *)

serviceUpdateTask(stored, id, updates) ==
  IF id \notin TaskIdsOf(stored)
  THEN [stored |-> stored, thrown |-> TRUE]
  ELSE LET taskIndex == CHOOSE i \in 1..Len(stored) :
                          /\ stored[i].id = id
                          /\ \A j \in 1..(i - 1) : stored[j].id # id
           merged == [f \in DOMAIN stored[taskIndex] |->
                        IF f \in DOMAIN updates THEN updates[f]
                        ELSE stored[taskIndex][f]]
           updatedTask ==
             IF "status" \in DOMAIN updates /\ updates.status = "completed"
                  /\ stored[taskIndex].completedAt = Undefined
             THEN [merged EXCEPT !.completedAt = Now] ELSE merged
       IN [stored |-> [stored EXCEPT ![taskIndex] = updatedTask],
           thrown |-> FALSE]

serviceDeleteTask(stored, id) ==
  [stored |-> SelectSeq(stored, LAMBDA task : task.id # id),
   thrown |-> FALSE]

----------------------------------------------------------------------------
(* The state machine: any sequence of calls of the store's operations.     *)

\* the pomodoro store after a call; the task store and the page are not
\* touched by it
Store(s) ==
  /\ timer' = s.timer
  /\ settings' = s.settings
  /\ sessions' = s.sessions
  /\ currentTaskId' = s.currentTaskId
  /\ UNCHANGED <<taskVars, pageVars, statsVars>>

Init ==
  /\ timer = initialTimer
  /\ settings = defaultSettings
  /\ sessions = <<>>
  /\ currentTaskId = Null
  /\ tasks = <<>>
  /\ error = Null
  /\ currentTask = Null
  /\ showTimer = FALSE
  /\ timeUp = NoTimeUp
  /\ dailyStats = <<>>

StartTimer ==
  \E taskId \in {NoTaskArg} :
    /\ \/ timer.isRunning
       \/ /\ Len(sessions) < MaxSessions
          /\ timer.completedPomodoros < MaxCount
          /\ timer.currentCycle <= MaxCount
    /\ Store(startTimer(St, taskId))

PauseTimer ==
  /\ Store(pauseTimer(St))

ResumeTimer ==
  /\ Store(resumeTimer(St))

StopTimer ==
  /\ Store(stopTimer(St))

ResetTimer ==
  /\ Store(resetTimer(St))

Tick ==
  /\ Store(tick(St))

CompleteSession ==
  /\ Store(completeSession(St))

HandleTimeUp ==
  /\ TimeIsUp(timer)
  /\ Store(handleTimeUp(St))

\* the Partial<PomodoroSettings> objects updateSettings is called with
SettingsUpdates ==
  {[focusDuration |-> m] : m \in FocusChoices}
    \cup {[longBreakInterval |-> n] : n \in IntervalChoices}
    \cup {[autoStartBreaks |-> b, autoStartPomodoros |-> b] : b \in BOOLEAN}

UpdateSettings ==
  \E newSettings \in SettingsUpdates :
    /\ Store(updateSettings(St, newSettings))

ResetSettings ==
  /\ Store(resetSettings(St))

ClearAllSessions ==
  /\ Store(clearAllSessions(St))

Next ==
  \/ HandleTimeUp
  \/ StartTimer
  \/ PauseTimer
  \/ ResumeTimer
  \/ StopTimer
  \/ ResetTimer
  \/ Tick
  \/ CompleteSession
  \/ UpdateSettings
  \/ ResetSettings

\* the timer's operations: clearAllSessions writes only the ledger, which no
\* operation reads to compute a field of timer or settings
Spec == Init /\ [][Next]_vars

\* the timer's operations together with the bulk clearing of the ledger
NextLedger ==
  \/ Next
  \/ ClearAllSessions

SpecLedger == Init /\ [][NextLedger]_vars

TypeOK ==
  /\ timer.remainingTime \in Int
  /\ timer.isRunning \in BOOLEAN
  /\ timer.isPaused \in BOOLEAN
  /\ timer.currentType \in {"focus", "short-break", "long-break"}
  /\ Len(sessions) <= MaxSessions

----------------------------------------------------------------------------
(* Persistence of the pomodoro store: persist() writes partialize(state)   *)
(* and, at process start, merges the stored object over the initial state  *)
(* with its default merge, { ...currentState, ...persistedState }: the     *)
(* stored timer object replaces the initial timer whole.                   *)

partialize(s) ==
  [sessions |-> s.sessions,
   settings |-> s.settings,
   timer |-> [completedPomodoros |-> s.timer.completedPomodoros,
              currentCycle |-> s.timer.currentCycle]]

\* the state of the store after create(): lines 69-72
initialState ==
  [timer |-> initialTimer, settings |-> defaultSettings, sessions |-> <<>>,
   currentTaskId |-> Null]

rehydrate(persisted) ==
  [f \in DOMAIN initialState |->
     IF f \in DOMAIN persisted THEN persisted[f] ELSE initialState[f]]

\* a timer object that has all the fields of PomodoroTimer the store reads
IsWholeTimer(t) == DOMAIN t = DOMAIN initialTimer

\* the process is restarted: the store is created anew from the snapshot
Restart ==
  /\ IsWholeTimer(timer)
  /\ Store(rehydrate(partialize(St)))

\* the store's operations up to a restart; the calls on the rehydrated
\* store are not followed
NextRestart ==
  \/ IsWholeTimer(timer) /\ Next
  \/ Restart

SpecRestart == Init /\ [][NextRestart]_vars

----------------------------------------------------------------------------
(* The task store's state machine: any sequence of calls of its            *)
(* operations, with ids of tasks and an id no task carries.                *)

\* the task store after a call; the pomodoro store and the page are not
\* touched by it
TaskStore(ts) ==
  /\ tasks' = ts.tasks
  /\ error' = ts.error
  /\ UNCHANGED <<pomodoroVars, pageVars, statsVars>>

AddTask ==
  \E taskData \in TaskForms :
    /\ TaskIds \ TaskIdsOf(tasks) # {}
    /\ TaskStore(addTask(Ts, taskData))

UpdateTask ==
  \E id \in TaskIds \cup {UnknownId}, updates \in TaskUpdates :
    /\ TaskStore(updateTask(Ts, id, updates))

DeleteTask ==
  \E id \in TaskIds \cup {UnknownId} :
    /\ TaskStore(deleteTask(Ts, id))

ToggleTaskStatus ==
  \E id \in TaskIds \cup {UnknownId} :
    /\ TaskStore(toggleTaskStatus(Ts, id))

IncrementTomato ==
  \E id \in TaskIds \cup {UnknownId} :
    /\ \A i \in 1..Len(tasks) : tasks[i].completedTomatoes < MaxTomatoes
    /\ TaskStore(incrementTomato(Ts, id))

DecrementTomato ==
  \E id \in TaskIds \cup {UnknownId} :
    /\ TaskStore(decrementTomato(Ts, id))

ClearAllTasks ==
  /\ TaskStore(clearAllTasks(Ts))

NextTasks ==
  \/ AddTask
  \/ UpdateTask
  \/ DeleteTask
  \/ ToggleTaskStatus
  \/ IncrementTomato
  \/ DecrementTomato
  \/ ClearAllTasks

SpecTasks == Init /\ [][NextTasks]_vars

----------------------------------------------------------------------------
(* The home page (src/unnamed/part_001) with its PomodoroTimer             *)
(* (src/unnamed/part_005): the user's clicks, the one-second interval and  *)
(* the time-up handler, which awaits the toast before it completes the     *)
(* session and calls onComplete.                                           *)

\* the task lists the home page is opened with: two tasks added on the
\* tasks page
HomeTasks ==
  {addTask(addTask([tasks |-> <<>>, error |-> Null], first), second).tasks :
     first \in TaskForms, second \in TaskForms}

InitHome ==
  /\ timer = initialTimer
  /\ settings = defaultSettings
  /\ sessions = <<>>
  /\ currentTaskId = Null
  /\ tasks \in HomeTasks
  /\ error = Null
  /\ currentTask = Null
  /\ showTimer = FALSE
  /\ timeUp = NoTimeUp
  /\ dailyStats = <<>>

\* the taskId prop of PomodoroTimer: currentTask?.id
TaskIdProp(task) == IF task = Null THEN NoTaskArg ELSE task

\* the effect on [timer.remainingTime, timer.isRunning] of a mounted
\* PomodoroTimer: it calls handleTimeUp, whose onComplete closes over the
\* page's currentTask of that render
TimeUpEffect(before, after, task) ==
  IF /\ TimeIsUp(after)
     /\ <<after.remainingTime, after.isRunning>>
          # <<before.remainingTime, before.isRunning>>
  THEN task ELSE timeUp

\* handleStartTask; PomodoroTimer mounts, and its effects run
HandleTaskClick ==
  \E i \in 1..Len(tasks) :
    /\ ~showTimer
    /\ tasks[i].status # "completed"
    /\ currentTask' = tasks[i].id
    /\ showTimer' = TRUE
    /\ currentTaskId' = setCurrentTask(St, tasks[i].id).currentTaskId
    /\ timeUp' = IF TimeIsUp(timer) THEN tasks[i].id ELSE timeUp
    /\ UNCHANGED <<timer, settings, sessions, taskVars, statsVars>>

\* the page's effect on [timer, tasks]: a running session of a known task
\* opens the timer for that task; PomodoroTimer mounts
HomePageEffect ==
  /\ timer.isRunning
  /\ HasSession(timer)
  /\ timer.currentSession.taskId \in TaskIdsOf(tasks)
  /\ ~showTimer \/ currentTask # timer.currentSession.taskId
  /\ currentTask' = timer.currentSession.taskId
  /\ showTimer' = TRUE
  /\ currentTaskId' = setCurrentTask(St, timer.currentSession.taskId).currentTaskId
  /\ timeUp' = IF ~showTimer /\ TimeIsUp(timer)
               THEN timer.currentSession.taskId ELSE timeUp
  /\ UNCHANGED <<timer, settings, sessions, taskVars, statsVars>>

\* the start / resume button
HandleStart ==
  LET after == IF timer.isPaused THEN resumeTimer(St)
               ELSE startTimer(St, TaskIdProp(currentTask))
  IN /\ showTimer
     /\ ~timer.isRunning \/ timer.isPaused
     /\ timer.isPaused
          \/ /\ Len(sessions) < MaxSessions
             /\ timer.completedPomodoros < MaxCount
             /\ timer.currentCycle <= MaxCount
     /\ timer' = after.timer
     /\ sessions' = after.sessions
     /\ currentTaskId' = after.currentTaskId
     /\ timeUp' = TimeUpEffect(timer, after.timer, currentTask)
     /\ UNCHANGED <<settings, taskVars, currentTask, showTimer, statsVars>>

\* the pause button, shown while running and not paused
HandlePause ==
  /\ showTimer
  /\ timer.isRunning /\ ~timer.isPaused
  /\ timer' = pauseTimer(St).timer
  /\ UNCHANGED <<settings, sessions, currentTaskId, taskVars, pageVars, statsVars>>

\* the stop button: stopTimer, then onCancel = handleTimerCancel
HandleStop ==
  /\ showTimer
  /\ timer' = stopTimer(St).timer
  /\ sessions' = stopTimer(St).sessions
  /\ currentTask' = Null
  /\ showTimer' = FALSE
  /\ UNCHANGED <<settings, currentTaskId, taskVars, timeUp, statsVars>>

\* a click on the backdrop: handleTimerCancel
HandleTimerCancel ==
  /\ showTimer
  /\ currentTask' = Null
  /\ showTimer' = FALSE
  /\ UNCHANGED <<pomodoroVars, taskVars, timeUp, statsVars>>

\* the interval of a mounted PomodoroTimer while running and not paused
IntervalTick ==
  /\ showTimer
  /\ timer.isRunning /\ ~timer.isPaused
  /\ timer' = tick(St).timer
  /\ sessions' = tick(St).sessions
  /\ timeUp' = TimeUpEffect(timer, tick(St).timer, currentTask)
  /\ UNCHANGED <<settings, currentTaskId, taskVars, currentTask, showTimer, statsVars>>

\* handleTimerComplete of the render whose currentTask was task; the
\* tasks.find reads the list of that render, before the increment
handleTimerComplete(ts, task) ==
  IF task = Null THEN ts
  ELSE IF \E i \in 1..Len(ts.tasks) :
            /\ ts.tasks[i].id = task
            /\ \A j \in 1..(i - 1) : ts.tasks[j].id # task
            /\ ts.tasks[i].completedTomatoes >= ts.tasks[i].plannedTomatoes
       THEN toggleTaskStatus(incrementTomato(ts, task), task)
       ELSE incrementTomato(ts, task)

\* handleTimeUp after its await: completeSession(), then onComplete()
HandleTimeUpDone ==
  /\ timeUp # NoTimeUp
  /\ \A i \in 1..Len(tasks) : tasks[i].completedTomatoes < MaxTomatoes
  /\ timer' = completeSession(St).timer
  /\ sessions' = completeSession(St).sessions
  /\ tasks' = handleTimerComplete(Ts, timeUp).tasks
  /\ error' = handleTimerComplete(Ts, timeUp).error
  /\ currentTask' = Null
  /\ showTimer' = FALSE
  /\ timeUp' = NoTimeUp
  /\ UNCHANGED <<settings, currentTaskId, statsVars>>

NextHome ==
  \/ HandleTaskClick
  \/ HomePageEffect
  \/ HandleStart
  \/ HandlePause
  \/ HandleStop
  \/ HandleTimerCancel
  \/ IntervalTick
  \/ HandleTimeUpDone

SpecHome == InitHome /\ [][NextHome]_vars

----------------------------------------------------------------------------
(* The useTimer hook (src/unnamed/part_009, 347-675): its handler for the  *)
(* return of the app to the foreground. elapsed is                         *)
(* floor((now - startTime of the current session) / 1000).                 *)

\* PomodoroSession has no field expectedDuration: the read gives undefined,
\* and undefined * SecPerMin is NaN
HasExpectedDuration(session) == "expectedDuration" \in DOMAIN session

\* elapsed >= expectedDuration: every comparison with NaN is false
ElapsedReaches(elapsed, session) ==
  /\ HasExpectedDuration(session)
  /\ elapsed >= session.expectedDuration * SecPerMin

\* Math.max(0, expectedDuration - elapsed): arithmetic on NaN gives NaN
TimeLeft(elapsed, session) ==
  IF ~HasExpectedDuration(session) THEN NaN
  ELSE IF session.expectedDuration * SecPerMin - elapsed > 0
  THEN session.expectedDuration * SecPerMin - elapsed
  ELSE 0

\* { ...state.timer, timeLeft }: timeLeft is a field the store never reads
WithTimeLeft(t, timeLeft) ==
  [f \in DOMAIN t \cup {"timeLeft"} |-> IF f = "timeLeft" THEN timeLeft ELSE t[f]]

\* handlePhaseComplete: completeSession, then a setState that reads
\* timer.currentPhase (undefined, so never 'focus': the next phase is focus
\* and isRunning is set); the fields currentPhase and sessionCount it also
\* writes are read by nothing
handlePhaseComplete(s) ==
  LET done == IF HasSession(s.timer) THEN completeSession(s) ELSE s
  IN [done EXCEPT !.timer =
        [WithTimeLeft(done.timer, s.settings.focusDuration * SecPerMin)
           EXCEPT !.isRunning = TRUE]]

handleAppShow(s, elapsed) ==
  IF s.timer.isRunning /\ HasSession(s.timer)
  THEN IF ElapsedReaches(elapsed, s.timer.currentSession)
       THEN handlePhaseComplete(s)
       ELSE [s EXCEPT !.timer =
               WithTimeLeft(s.timer, TimeLeft(elapsed, s.timer.currentSession))]
  ELSE s

HandleAppShow ==
  \E elapsed \in 0..MaxElapsed :
    /\ Store(handleAppShow(St, elapsed))

\* the timer's operations and the returns to the foreground
NextAppShow ==
  \/ Next
  \/ HandleAppShow

SpecAppShow == Init /\ [][NextAppShow]_vars

----------------------------------------------------------------------------
(* The statistics store (src/unnamed/part_007). A calendar date            *)
(* 'YYYY-MM-DD' is a day number; a session's startTime is the day number   *)
(* of its date part, the only part the aggregator reads. JavaScript's      *)
(* number division is exact division: a quotient is kept as a rational     *)
(* number, whole + num / den in lowest terms.                              *)

RECURSIVE GCD(_, _)
GCD(a, b) == IF b = 0 THEN a ELSE GCD(b, a % b)

\* n / d
Quotient(n, d) ==
  LET g == GCD(n % d, d)
  IN [whole |-> n \div d, num |-> (n % d) \div g, den |-> d \div g]

\* the number k as a quotient
Whole(k) == [whole |-> k, num |-> 0, den |-> 1]

\* a + b
AddQuotients(a, b) ==
  Quotient((a.whole * a.den + a.num) * b.den + (b.whole * b.den + b.num) * a.den,
           a.den * b.den)

\* sessions.reduce((sum, session) => sum + session.duration, 0)
RECURSIVE SumDurations(_)
SumDurations(list) ==
  IF list = <<>> THEN 0 ELSE list[1].duration + SumDurations(Tail(list))

\* session.status === 'completed' && session.type === 'focus'
IsCompletedFocus(session) ==
  session.status = "completed" /\ session.type = "focus"

CompletedTasks(list) == SelectSeq(list, LAMBDA task : task.status = "completed")

\* the categories of a task list in the order a Map first meets them
RECURSIVE CategoryOrder(_)
CategoryOrder(list) ==
  IF list = <<>> THEN <<>>
  ELSE LET front == CategoryOrder(SubSeq(list, 1, Len(list) - 1))
           category == list[Len(list)].category
       IN IF \E i \in 1..Len(front) : front[i] = category THEN front
          ELSE Append(front, category)

\* tasks.reduce of completedTomatoes
RECURSIVE SumTomatoes(_)
SumTomatoes(list) ==
  IF list = <<>> THEN 0 ELSE list[1].completedTomatoes + SumTomatoes(Tail(list))

\* dayTasks.find(t => t.id === session.taskId)?.category === category
SessionInCategory(session, dayTasks, category) ==
  \E i \in 1..Len(dayTasks) :
    /\ dayTasks[i].id = session.taskId
    /\ \A j \in 1..(i - 1) : dayTasks[j].id # session.taskId
    /\ dayTasks[i].category = category

\* the CategoryStats of one category of a day
CategoryStats(category, dayTasks, daySessions) ==
  LET members == SelectSeq(dayTasks, LAMBDA task : task.category = category)
  IN [category |-> category,
      taskCount |-> Len(members),
      tomatoCount |-> SumTomatoes(members),
      focusTime |->
        Quotient(SumDurations(SelectSeq(daySessions,
                   LAMBDA session : SessionInCategory(session, dayTasks, category))),
                 MinuteSeconds),
      completionRate |->
        IF Len(members) > 0
        THEN Quotient(Len(CompletedTasks(members)) * Percent, Len(members))
        ELSE Whole(0)]

calculateDailyStats(date, taskList, sessionList) ==
  LET dayTasks == SelectSeq(taskList, LAMBDA task : task.scheduledDate = date)
      daySessions == SelectSeq(sessionList, LAMBDA session :
                                 session.startTime = date /\ IsCompletedFocus(session))
      order == CategoryOrder(dayTasks)
  IN [date |-> date,
      completedTasks |-> Len(CompletedTasks(dayTasks)),
      completedTomatoes |-> Len(daySessions),
      focusTime |-> Quotient(SumDurations(daySessions), MinuteSeconds),
      categories |-> [i \in 1..Len(order) |->
                        CategoryStats(order[i], dayTasks, daySessions)]]

\* new Date(date), setDate(getDate() + i), toISOString().split('T')[0]: the
\* date i days later (in a time zone without clock changes)
AddDays(date, i) == date + i

\* the week test with the last day left out
InWeekOpenEnded(date, weekStart) ==
  date >= weekStart /\ date < AddDays(weekStart, WeekDays - 1)

\* date >= weekStart && date <= weekEndStr
InWeek(date, weekStart) ==
  date >= weekStart /\ date <= AddDays(weekStart, WeekDays - 1)

calculateWeeklyStats(weekStart, taskList, sessionList) ==
  LET weekTasks == SelectSeq(taskList, LAMBDA task : InWeek(task.scheduledDate, weekStart))
      weekSessions == SelectSeq(sessionList, LAMBDA session :
                                  InWeek(session.startTime, weekStart)
                                    /\ IsCompletedFocus(session))
      totalFocusTime == Quotient(SumDurations(weekSessions), MinuteSeconds)
  IN [weekStart |-> weekStart,
      weekEnd |-> AddDays(weekStart, WeekDays - 1),
      totalTasks |-> Len(weekTasks),
      completedTasks |-> Len(CompletedTasks(weekTasks)),
      totalTomatoes |-> Len(weekSessions),
      totalFocusTime |-> totalFocusTime,
      dailyStats |-> [i \in 1..WeekDays |->
                        calculateDailyStats(AddDays(weekStart, i - 1),
                                            taskList, sessionList)],
      averageDaily |-> [tasks |-> Quotient(Len(weekTasks), WeekDays),
                        tomatoes |-> Quotient(Len(weekSessions), WeekDays),
                        focusTime |-> Quotient(SumDurations(weekSessions),
                                               MinuteSeconds * WeekDays)]]

\* the category a Map iteration with "count > maxCount" ends with
FavoriteCategory(taskList) ==
  LET order == CategoryOrder(taskList)
      Count(category) ==
        Len(SelectSeq(taskList, LAMBDA task : task.category = category))
  IN IF order = <<>> THEN ""
     ELSE order[CHOOSE i \in 1..Len(order) :
                  /\ \A j \in 1..Len(order) : Count(order[j]) <= Count(order[i])
                  /\ \A j \in 1..(i - 1) : Count(order[j]) < Count(order[i])]

calculateOverallStats(taskList, sessionList) ==
  LET completedSessions == SelectSeq(sessionList, IsCompletedFocus)
      activeDays == Cardinality({completedSessions[i].startTime :
                                   i \in 1..Len(completedSessions)})
  IN [totalDays |-> activeDays,
      totalTasks |-> Len(taskList),
      totalTomatoes |-> Len(completedSessions),
      totalFocusTime |-> Quotient(SumDurations(completedSessions), MinuteSeconds),
      averageDailyTomatoes |->
        IF activeDays > 0 THEN Quotient(Len(completedSessions), activeDays)
        ELSE Whole(0),
      favoriteCategory |-> FavoriteCategory(taskList),
      completionRate |->
        IF Len(taskList) > 0
        THEN Quotient(Len(CompletedTasks(taskList)) * Percent, Len(taskList))
        ELSE Whole(0)]

\* getTaskStats of the task store (src/src/store/taskStore.ts): its
\* completionRate
getTaskStats(taskList) ==
  [totalTasks |-> Len(taskList),
   completedTasks |-> Len(CompletedTasks(taskList)),
   completionRate |->
     IF Len(taskList) > 0
     THEN Quotient(Len(CompletedTasks(taskList)) * Percent, Len(taskList))
     ELSE Whole(0)]

\* Math.round(x) of a quotient x >= 0
Round(q) == IF 2 * q.num >= q.den THEN q.whole + 1 ELSE q.whole

\* the completionRate of the statistics page's overallStats
\* (src/unnamed/part_002)
pageCompletionRate(taskList) ==
  IF Len(taskList) > 0
  THEN Whole(Round(Quotient(Len(CompletedTasks(taskList)) * Percent, Len(taskList))))
  ELSE Whole(0)

\* [...state.dailyStats.filter(s => s.date !== stats.date), stats]
updateDailyStats(stored, stats) ==
  Append(SelectSeq(stored, LAMBDA entry : entry.date # stats.date), stats)

clearAllStats(stored) == <<>>

\* date.toLocaleDateString('zh-CN', { month: 'short', day: 'numeric' }): the
\* month and day of a date, different for any two of 30 consecutive days
DateLabel(date) == <<"month-day", date>>

TrendDays(period) == IF period = "week" THEN TrendWeekDays ELSE TrendMonthDays

\* dailyStats.find(s => s.date === dateStr)?.completedTomatoes || 0
TomatoesOn(stored, date) ==
  IF \E i \in 1..Len(stored) : stored[i].date = date
  THEN stored[CHOOSE i \in 1..Len(stored) :
                /\ stored[i].date = date
                /\ \A j \in 1..(i - 1) : stored[j].date # date].completedTomatoes
  ELSE 0

\* labels and datasets[0].data of getTrendChartData; today is new Date()
getTrendChartData(stored, period, today) ==
  [labels |-> [k \in 1..TrendDays(period) |->
                 DateLabel(AddDays(today, k - TrendDays(period)))],
   data |-> [k \in 1..TrendDays(period) |->
               TomatoesOn(stored, AddDays(today, k - TrendDays(period)))]]

(* The inputs of the aggregator: task lists and session lists.             *)

\* the first day of the week the statistics are asked for, and a day of the
\* week after it
WeekStart == 1
NextWeekDay == 8
StatDates == {1, 2}
Todays == {2, 8}
Periods == {"week", "month"}

StatTaskIds == <<"t1", "t2", "t3", "t4", "t5">>

\* scheduledDate, status, category and completedTomatoes of the tasks
StatTaskKinds ==
  {[scheduledDate |-> 1, status |-> "completed", category |-> "work",
    completedTomatoes |-> 1],
   [scheduledDate |-> 1, status |-> "todo", category |-> "study",
    completedTomatoes |-> 0],
   [scheduledDate |-> 2, status |-> "completed", category |-> "study",
    completedTomatoes |-> 2]}

StatTask(id, kind) ==
  [id |-> id, title |-> "a", plannedTomatoes |-> 1, status |-> kind.status,
   completedTomatoes |-> kind.completedTomatoes, completedAt |-> Undefined,
   scheduledDate |-> kind.scheduledDate, category |-> kind.category]

StatTaskLists ==
  UNION {{[i \in 1..n |-> StatTask(StatTaskIds[i], kinds[i])] :
            kinds \in [1..n -> StatTaskKinds]} : n \in 0..MaxStatTasks}

\* sessions of the ledger as the timer's operations leave them, with their
\* start day
StatSessionKinds ==
  {[taskId |-> "t1", startTime |-> 1, duration |-> 90, plannedDuration |-> 90,
    type |-> "focus", status |-> "completed"],
   [taskId |-> "t2", startTime |-> 2, duration |-> 60, plannedDuration |-> 60,
    type |-> "focus", status |-> "completed"],
   [taskId |-> "", startTime |-> 1, duration |-> 30, plannedDuration |-> 60,
    type |-> "focus", status |-> "cancelled"],
   [taskId |-> "", startTime |-> 1, duration |-> 60, plannedDuration |-> 60,
    type |-> "short-break", status |-> "completed"],
   [taskId |-> "t1", startTime |-> 2, duration |-> 0, plannedDuration |-> 60,
    type |-> "focus", status |-> "running"],
   [taskId |-> "", startTime |-> NextWeekDay, duration |-> 60,
    plannedDuration |-> 60, type |-> "focus", status |-> "completed"]}

StatSession(id, kind) ==
  [id |-> id, taskId |-> kind.taskId, startTime |-> kind.startTime,
   duration |-> kind.duration, plannedDuration |-> kind.plannedDuration,
   type |-> kind.type, status |-> kind.status, interruptions |-> 0]

StatSessionLists ==
  UNION {{[i \in 1..n |-> StatSession(i, kinds[i])] :
            kinds \in [1..n -> StatSessionKinds]} : n \in 0..MaxStatSessions}

InitStats ==
  /\ timer = initialTimer
  /\ settings = defaultSettings
  /\ sessions \in StatSessionLists
  /\ currentTaskId = Null
  /\ tasks \in StatTaskLists
  /\ error = Null
  /\ currentTask = Null
  /\ showTimer = FALSE
  /\ timeUp = NoTimeUp
  /\ dailyStats = <<>>

\* the daily statistics of a date are computed and stored
UpdateDailyStats ==
  \E date \in StatDates :
    /\ dailyStats' = updateDailyStats(dailyStats,
                                      calculateDailyStats(date, tasks, sessions))
    /\ UNCHANGED <<pomodoroVars, taskVars, pageVars>>

ClearAllStats ==
  /\ dailyStats' = clearAllStats(dailyStats)
  /\ UNCHANGED <<pomodoroVars, taskVars, pageVars>>

NextStats ==
  \/ UpdateDailyStats
  \/ ClearAllStats
  \/ ClearAllSessions

SpecStats == InitStats /\ [][NextStats]_vars

----------------------------------------------------------------------------
(* Properties.                                                             *)

Breaks == {"short-break", "long-break"}

\* the ledger records that carry the id of the timer's current session
CurrentRecords(s) ==
  {i \in 1..Len(s.sessions) : s.sessions[i].id = s.timer.currentSession.id}

\* phase completions between store state a and the later store state b:
\* a completion raises exactly one of the two counters by one
Completions(a, b) ==
  (b.timer.completedPomodoros - a.timer.completedPomodoros)
    + (b.timer.currentCycle - a.timer.currentCycle)

C2_CompletionExactlyOnce ==
  (TimeIsUp(timer) /\ ~timer.isPaused)
    => /\ Completions(St, tick(St)) = 1
       /\ Completions(St, tick(tick(St))) = 1
       /\ Completions(St, handleTimeUp(tick(St))) = 1
       /\ Completions(St, tick(handleTimeUp(St))) = 1

C4_OneRunningSession ==
  Cardinality({i \in 1..Len(sessions) : sessions[i].status = "running"}) <= 1

\* C5: stopTimer on a running or paused timer leaves it idle without a
\* current session, records the current session, if any, as cancelled with
\* duration = plannedDuration - remainingTime, and keeps completedPomodoros,
\* currentCycle and currentType.
C5_StopMakesIdle ==
  (timer.isRunning \/ timer.isPaused)
    => LET after == stopTimer(St)
       IN /\ ~after.timer.isRunning
          /\ ~after.timer.isPaused
          /\ ~HasSession(after.timer)
          /\ after.timer.completedPomodoros = timer.completedPomodoros
          /\ after.timer.currentCycle = timer.currentCycle
          /\ after.timer.currentType = timer.currentType
          /\ HasSession(timer)
               => \E i \in CurrentRecords(St) :
                    /\ after.sessions[i].status = "cancelled"
                    /\ after.sessions[i].duration =
                         timer.currentSession.plannedDuration - timer.remainingTime

\* C6: stopTimer followed at once by startTimer appends a session with
\* status running, duration 0, no interruptions and plannedDuration =
\* SecPerMin x the minutes configured for timer.currentType.
C6_StopThenStartIsFresh ==
  \A taskId \in TaskIds \cup {NoTaskArg} :
    LET after == startTimer(stopTimer(St), taskId)
        new == after.sessions[Len(after.sessions)]
    IN /\ Len(after.sessions) = Len(sessions) + 1
       /\ new.status = "running"
       /\ new.duration = 0
       /\ new.interruptions = 0
       /\ new.plannedDuration =
            SecPerMin * ConfiguredMinutes(settings, timer.currentType)

\* C7: completing the phase of the current session stores that session as
\* completed with duration = its plannedDuration, clears the timer's
\* current session and sets remainingTime to SecPerMin x the minutes
\* configured for the next phase type.
C7_CompletionFinalizes ==
  HasSession(timer)
    => LET after == completeSession(St)
       IN /\ \E i \in CurrentRecords(St) :
               /\ after.sessions[i].status = "completed"
               /\ after.sessions[i].duration = sessions[i].plannedDuration
          /\ ~HasSession(after.timer)
          /\ after.timer.remainingTime =
               SecPerMin * ConfiguredMinutes(settings, after.timer.currentType)

\* C8: after a phase completes, isRunning is the auto-start flag of the next
\* phase: autoStartBreaks when a break follows, autoStartPomodoros when a
\* focus phase follows.
C8_AutoStartFollowsSettings ==
  HasSession(timer)
    => LET after == completeSession(St)
       IN after.timer.isRunning =
            IF after.timer.currentType \in Breaks
            THEN settings.autoStartBreaks ELSE settings.autoStartPomodoros

\* C9: startTimer on a running timer changes nothing: no session is
\* appended, timer, sessions and currentTaskId stay as they are.
C9_StartWhileRunningIsNoOp ==
  timer.isRunning
    => \A taskId \in TaskIds \cup {NoTaskArg} :
         LET after == startTimer(St, taskId)
         IN /\ after.timer = timer
            /\ after.sessions = sessions
            /\ after.currentTaskId = currentTaskId
            /\ after.settings = settings

\* a running timer with a session in the ledger and room for another one
C9_Witness ==
  /\ timer.isRunning
  /\ HasSession(timer)
  /\ CurrentRecords(St) # {}
  /\ Len(sessions) < MaxSessions

\* C10: pauseTimer on a timer that is not running (idle or paused) changes
\* nothing; an idle timer does not become paused.
C10_PauseWhenNotRunningIsNoOp ==
  ~timer.isRunning => pauseTimer(St) = St

\* C11: after a focus phase completes, stopTimer followed by startTimer
\* begins another focus session; from completedPomodoros = 0 with interval
\* 4, four focus sessions completed by such stop-start cycling end with
\* completedPomodoros = 4 and currentType = long-break.
C11_StopStartCyclesFocus ==
  (HasSession(timer) /\ timer.currentType = "focus")
    => LET first == completeSession(St)
           second == startTimer(stopTimer(first), NoTaskArg)
           third == startTimer(stopTimer(completeSession(second)), NoTaskArg)
           fourth == startTimer(stopTimer(completeSession(third)), NoTaskArg)
           last == completeSession(fourth)
       IN /\ second.timer.currentSession.type = "focus"
          /\ (timer.completedPomodoros = 0 /\ settings.longBreakInterval = 4)
               => /\ last.timer.completedPomodoros = 4
                  /\ last.timer.currentType = "long-break"

\* C12: completing a focus session raises completedPomodoros by one and
\* leaves currentCycle, completing a break session raises currentCycle by
\* one and leaves completedPomodoros; pauseTimer, resumeTimer, stopTimer,
\* startTimer, a tick that completes nothing, addInterruption and
\* updateSettings leave both counters as they are.
C12_CountersFollowCompletions ==
  LET Counters(a) == <<a.timer.completedPomodoros, a.timer.currentCycle>>
      Raised == IF timer.currentType = "focus"
                THEN <<timer.completedPomodoros + 1, timer.currentCycle>>
                ELSE <<timer.completedPomodoros, timer.currentCycle + 1>>
  IN /\ Counters(pauseTimer(St)) = Counters(St)
     /\ Counters(resumeTimer(St)) = Counters(St)
     /\ Counters(stopTimer(St)) = Counters(St)
     /\ \A taskId \in TaskIds \cup {NoTaskArg} :
          Counters(startTimer(St, taskId)) = Counters(St)
     /\ Counters(addInterruption(St)) = Counters(St)
     /\ \A newSettings \in SettingsUpdates :
          Counters(updateSettings(St, newSettings)) = Counters(St)
     /\ ~(TimeIsUp(timer) /\ ~timer.isPaused)
          => Counters(tick(St)) = Counters(St)
     /\ HasSession(timer) => Counters(completeSession(St)) = Raised
     /\ (HasSession(timer) /\ TimeIsUp(timer) /\ ~timer.isPaused)
          => Counters(tick(St)) = Raised

\* a break session counted down to 0 after a completed focus session
C12_Witness ==
  /\ TimeIsUp(timer)
  /\ ~timer.isPaused
  /\ HasSession(timer)
  /\ timer.currentSession.type \in Breaks
  /\ timer.completedPomodoros = 1

C14_SettingsLeaveSessionInFlight ==
  HasSession(timer)
    => \A after \in {updateSettings(St, newSettings) :
                       newSettings \in SettingsUpdates} \cup {resetSettings(St)} :
         /\ after.timer = timer
         /\ after.sessions = sessions
         /\ timer.remainingTime > 0 => tick(after).timer = tick(St).timer
         /\ \A i \in CurrentRecords(St) :
              /\ completeSession(after).sessions[i].plannedDuration =
                   timer.currentSession.plannedDuration
              /\ completeSession(after).sessions[i].duration =
                   timer.currentSession.plannedDuration

\* a running session whose plannedDuration is no longer what the settings
\* configure for its type
C14_Witness ==
  /\ HasSession(timer)
  /\ timer.isRunning
  /\ timer.remainingTime > 0
  /\ CurrentRecords(St) # {}
  /\ timer.currentSession.plannedDuration #
       SecPerMin * ConfiguredMinutes(settings, timer.currentType)

\* the fields of a session record that are fixed once it is finalized
FinalFields(session) ==
  [f \in DOMAIN session \ {"interruptions"} |-> session[f]]

\* C19: a ledger record with status completed or cancelled keeps its
\* status, duration, plannedDuration, type, taskId and id through every
\* later operation of the store, addInterruption included.
C19_FinalizedIsImmutable ==
  /\ [][\A i \in 1..Len(sessions) :
          sessions[i].status \in {"completed", "cancelled"}
            => /\ i <= Len(sessions')
               /\ FinalFields(sessions'[i]) = FinalFields(sessions[i])]_vars
  /\ [](\A i \in 1..Len(sessions) :
          sessions[i].status \in {"completed", "cancelled"}
            => /\ FinalFields(addInterruption(St).sessions[i])
                    = FinalFields(sessions[i])
               /\ FinalFields(addInterruption(addInterruption(St)).sessions[i])
                    = FinalFields(sessions[i]))

\* a finalized record in the ledger next to a session in flight
C19_Witness ==
  /\ HasSession(timer)
  /\ CurrentRecords(St) # {}
  /\ timer.remainingTime < timer.currentSession.plannedDuration
  /\ \E i \in 1..Len(sessions) : sessions[i].status = "cancelled"

\* C16: incrementTomato(id) raises completedTomatoes of every task with
\* that id by exactly one, also at or above plannedTomatoes, and changes
\* no other field of it (its status included) and no other task.
C16_IncrementIsUnclamped ==
  \A id \in TaskIds \cup {UnknownId} :
    LET after == incrementTomato(Ts, id)
    IN /\ Len(after.tasks) = Len(tasks)
       /\ \A i \in 1..Len(tasks) :
            IF tasks[i].id = id
            THEN /\ after.tasks[i].completedTomatoes = tasks[i].completedTomatoes + 1
                 /\ \A f \in DOMAIN tasks[i] \ {"completedTomatoes"} :
                      after.tasks[i][f] = tasks[i][f]
            ELSE after.tasks[i] = tasks[i]

\* two tasks, one of them incremented past its plan and still todo
C16_Witness ==
  /\ Len(tasks) = 2
  /\ \E i \in 1..Len(tasks) :
       /\ tasks[i].completedTomatoes > tasks[i].plannedTomatoes
       /\ tasks[i].status = "todo"

\* C17: toggleTaskStatus takes todo to in-progress, in-progress to
\* completed and completed to todo, so three applications return a task to
\* its status; after each application completedAt is set exactly when the
\* new status is completed, and no other task changes.
C17_ToggleCycles ==
  \A id \in TaskIds \cup {UnknownId} :
    LET once == toggleTaskStatus(Ts, id)
        twice == toggleTaskStatus(once, id)
        thrice == toggleTaskStatus(twice, id)
    IN \A i \in 1..Len(tasks) :
         IF tasks[i].id = id
         THEN /\ tasks[i].status = "todo"
                   => /\ once.tasks[i].status = "in-progress"
                      /\ twice.tasks[i].status = "completed"
                      /\ thrice.tasks[i].status = "todo"
              /\ tasks[i].status = "in-progress"
                   => once.tasks[i].status = "completed"
              /\ tasks[i].status = "completed"
                   => once.tasks[i].status = "todo"
              /\ thrice.tasks[i].status = tasks[i].status
              /\ \A after \in {once, twice, thrice} :
                   after.tasks[i].completedAt =
                     IF after.tasks[i].status = "completed" THEN Now
                     ELSE Undefined
         ELSE thrice.tasks[i] = tasks[i] /\ once.tasks[i] = tasks[i]

\* a task toggled into completed next to a task that is in progress
C17_Witness ==
  /\ \E i \in 1..Len(tasks) :
       tasks[i].status = "completed" /\ tasks[i].completedAt = Now
  /\ \E i \in 1..Len(tasks) :
       tasks[i].status = "in-progress" /\ tasks[i].completedAt = Undefined

\* C18: updateTask and deleteTask with an id no task carries report a
\* failure (the store's error, the service's rejection) and leave the task
\* list as it is.
C18_MissingIdIsReported ==
  \A id \in (TaskIds \cup {UnknownId}) \ TaskIdsOf(tasks) :
    /\ \A updates \in TaskUpdates :
         /\ updateTask(Ts, id, updates).error # Null
         /\ updateTask(Ts, id, updates).tasks = tasks
         /\ serviceUpdateTask(tasks, id, updates).thrown
         /\ serviceUpdateTask(tasks, id, updates).stored = tasks
    /\ deleteTask(Ts, id).error # Null
    /\ deleteTask(Ts, id).tasks = tasks
    /\ serviceDeleteTask(tasks, id).thrown
    /\ serviceDeleteTask(tasks, id).stored = tasks

\* the completed focus sessions of the ledger that are tied to a task
CompletedFocusOf(task) ==
  {j \in 1..Len(sessions) : /\ sessions[j].type = "focus"
                            /\ sessions[j].status = "completed"
                            /\ sessions[j].taskId = task}

\* C15: whenever no time-up handler is in flight, completedTomatoes of
\* every task is the number of completed focus sessions tied to it: each
\* focus completion has counted once, and break completions, time-ups
\* without a session and stops have counted nothing.
C15_TomatoesCountFocusCompletions ==
  timeUp = NoTimeUp
    => \A i \in 1..Len(tasks) :
         tasks[i].completedTomatoes = Cardinality(CompletedFocusOf(tasks[i].id))

\* C20: a restart leaves the timer idle (isRunning = false, isPaused =
\* false, no current session) with remainingTime and currentType at their
\* initial values and with completedPomodoros and currentCycle as they were
\* before the restart.
C20_RestartIsIdle ==
  [][Restart
       => /\ timer'.completedPomodoros = timer.completedPomodoros
          /\ timer'.currentCycle = timer.currentCycle
          /\ IsWholeTimer(timer')
          /\ timer'.isRunning = FALSE
          /\ timer'.isPaused = FALSE
          /\ ~HasSession(timer')
          /\ timer'.remainingTime = initialTimer.remainingTime
          /\ timer'.currentType = initialTimer.currentType]_vars

\* C21: when the app returns to the foreground while a session is running,
\* elapsed seconds after the session's start, remainingTime becomes
\* plannedDuration - elapsed, clamped at 0, and the phase is completed when
\* elapsed >= plannedDuration.
C21_ForegroundResync ==
  (timer.isRunning /\ HasSession(timer))
    => \A elapsed \in 0..MaxElapsed :
         LET after == handleAppShow(St, elapsed)
             planned == timer.currentSession.plannedDuration
         IN IF elapsed >= planned
            THEN Completions(St, after) = 1
            ELSE after.timer.remainingTime = planned - elapsed

\* C22: calculateDailyStats(date, tasks, sessions) returns completedTomatoes
\* = the number of completed focus sessions started on date, completedTasks
\* = the number of completed tasks scheduled on date, and focusTime = the
\* sum of those sessions' durations integer-divided by 60; cancelled,
\* running and break sessions count nothing.
C22_DailyStatsCountAndSum ==
  \A date \in StatDates :
    LET daily == calculateDailyStats(date, tasks, sessions)
        counted == {i \in 1..Len(sessions) :
                      /\ sessions[i].startTime = date
                      /\ sessions[i].status = "completed"
                      /\ sessions[i].type = "focus"}
        seconds == SumDurations(SelectSeq(sessions, LAMBDA session :
                                   /\ session.startTime = date
                                   /\ session.status = "completed"
                                   /\ session.type = "focus"))
    IN /\ daily.completedTomatoes = Cardinality(counted)
       /\ daily.completedTasks =
            Cardinality({i \in 1..Len(tasks) :
                           /\ tasks[i].scheduledDate = date
                           /\ tasks[i].status = "completed"})
       /\ daily.focusTime = Whole(seconds \div MinuteSeconds)

\* the sum of a numeric field over a list of daily aggregates
RECURSIVE SumField(_, _)
SumField(list, field) ==
  IF list = <<>> THEN 0 ELSE list[1][field] + SumField(Tail(list), field)

\* the sum of focusTime over a list of daily aggregates
RECURSIVE SumFocusTime(_)
SumFocusTime(list) ==
  IF list = <<>> THEN Whole(0)
  ELSE AddQuotients(list[1].focusTime, SumFocusTime(Tail(list)))

C24_TrendIsZeroFilled ==
  \A period \in Periods, today \in Todays :
    LET chart == getTrendChartData(dailyStats, period, today)
        n == IF period = "week" THEN 7 ELSE 30
    IN /\ Len(chart.labels) = n
       /\ Len(chart.data) = n
       /\ \A k \in 1..n :
            /\ chart.labels[k] = DateLabel(today - (n - k))
            /\ (\A i \in 1..Len(sessions) : sessions[i].startTime # today - (n - k))
                 => chart.data[k] = 0

\* C26: the trend chart series depends only on the tasks and sessions and
\* the date range, not on what the stats store holds: it is the same after
\* clearAllStats; the calculate operations read nothing but their arguments
\* and write nothing.
C26_OutputsDependOnSnapshotOnly ==
  \A period \in Periods, today \in Todays :
    getTrendChartData(dailyStats, period, today)
      = getTrendChartData(clearAllStats(dailyStats), period, today)

\* C25: the overall completion rate is completedTasks / totalTasks x 100
\* rounded to the nearest integer, and 0 when there are no tasks: in
\* calculateOverallStats, in the task store's getTaskStats and on the
\* statistics page.
C25_CompletionRateIsRounded ==
  LET total == Len(tasks)
      completed == Cardinality({i \in 1..Len(tasks) : tasks[i].status = "completed"})
      expected == IF total = 0 THEN Whole(0)
                  ELSE Whole((2 * 100 * completed + total) \div (2 * total))
  IN /\ calculateOverallStats(tasks, sessions).completionRate = expected
     /\ getTaskStats(tasks).completionRate = expected
     /\ pageCompletionRate(tasks) = expected

\* C27: after pauseTimer, one or two tick() calls change nothing, and
\* resumeTimer then leaves the timer running and not paused with the
\* remainingTime, the current session, the ledger and the settings it had
\* before the pause; tick() on a timer that is not running changes nothing.
C27_PauseFreezesTime ==
  LET paused == pauseTimer(St)
      resumed == resumeTimer(tick(tick(paused)))
  IN /\ tick(paused) = paused
     /\ tick(tick(paused)) = paused
     /\ resumed.timer.isRunning
     /\ ~resumed.timer.isPaused
     /\ \A f \in DOMAIN timer \ {"isRunning", "isPaused"} :
          resumed.timer[f] = timer[f]
     /\ resumed.sessions = sessions
     /\ resumed.settings = settings
     /\ resumed.currentTaskId = currentTaskId
     /\ ~timer.isRunning => tick(St) = St

\* a session paused part-way through its countdown
C27_Witness ==
  /\ timer.isPaused
  /\ ~timer.isRunning
  /\ HasSession(timer)
  /\ 0 < timer.remainingTime
  /\ timer.remainingTime < timer.currentSession.plannedDuration

\* C28: whenever startTimer creates a session (the timer is not running),
\* timer.remainingTime right after the call equals the new session's
\* plannedDuration.
C28_StartBeginsFullCountdown ==
  ~timer.isRunning
    => \A taskId \in TaskIds \cup {NoTaskArg} :
         LET after == startTimer(St, taskId)
         IN /\ Len(after.sessions) = Len(sessions) + 1
            /\ after.timer.remainingTime = after.timer.currentSession.plannedDuration

\* C29: every session of the ledger has duration >= 0; in particular the
\* duration stopTimer records for a cancelled session is not negative.
C29_DurationIsNonNegative ==
  /\ \A i \in 1..Len(sessions) : sessions[i].duration >= 0
  /\ \A i \in 1..Len(stopTimer(St).sessions) : stopTimer(St).sessions[i].duration >= 0

\* C30: whenever the timer holds a current session, exactly one record of
\* the ledger carries its id, so that completeSession and stopTimer each
\* finalize exactly one ledger record - also after clearAllSessions.
C30_CurrentSessionIsInLedger ==
  HasSession(timer)
    => /\ Cardinality(CurrentRecords(St)) = 1
       /\ Cardinality({i \in 1..Len(sessions) :
                         completeSession(St).sessions[i].status = "completed"
                           /\ sessions[i].status # "completed"}) = 1
       /\ Cardinality({i \in 1..Len(sessions) :
                         stopTimer(St).sessions[i].status = "cancelled"
                           /\ sessions[i].status # "cancelled"}) = 1

====
